---- MODULE Spec2Model ----
(***************************************************************************)
(* Nebula Dash: the game engine of src/components/GameCanvas.tsx.          *)
(*                                                                         *)
(* Units.  The source computes in floating point; the model uses integers: *)
(*   time                 milliseconds (timestamps, delta, timers)         *)
(*   positions, radii     tenths of a pixel                                *)
(*   velocities           tenths of a pixel per second                     *)
(*   score                thousandths of a point                           *)
(* A product with a fraction is truncated toward zero (MulDiv).            *)
(* Math.random() is a value k/4 with k in 0..3.                            *)
(* The star particles, the hue of an obstacle, runtime.ctx and the copy    *)
(* runtime.best are drawn or never read; they are not part of the model.   *)
(***************************************************************************)
EXTENDS Integers, Sequences, FiniteSets, TLC

\* ---- program constants -------------------------------------------------
WIDTH == 7200
HEIGHT == 4800
INITIAL_LIVES == 3

\* ---- bounds of the model -----------------------------------------------
\* performance.now() at the moment startGame runs
StartNow == 1000
\* how far the time read by startGame may lie after the timestamp of the
\* first frame callback (the frame's time is fixed before its callbacks run)
Skew == 20
\* length of a run that the model follows, in ms
MaxRun == 4400
\* length of a run in the steering specification, in ms
MaxSteerRun == 1200
\* length of the scoring scenario, in ms
ScenarioTime == 10000
MaxCullRun == 3000

\* ---- inputs --------------------------------------------------------------
\* time between two frame callbacks, in ms
Deltas == {400, 1200}
ScenarioDeltas == {500, 2500, 10000}
CullDeltas == {100, 1200}
\* keys of the keyboard events
Keys == {" ", "Spacebar", "x"}
SteerKeys == {"ArrowLeft", "ArrowRight", "a", "D", " "}
\* pointer position in field coordinates, tenths of a pixel
PointerXs == {-500, 3600}
SteerPointerXs == {-500, 3600, 9000}
\* the values Math.random() returns for one obstacle (x, radius, velocity,
\* drift), in quarters
Draws == { [rx |-> 2, rr |-> 3, rv |-> 0, rd |-> 2],
           [rx |-> 0, rr |-> 0, rv |-> 2, rd |-> 0] }
\* the draws of the scoring scenario: obstacles that stay clear of the player
ScenarioDraws == { [rx |-> 0, rr |-> 0, rv |-> 2, rd |-> 0] }

VARIABLES
  mounted,         \* the component is mounted (listeners and buttons exist)
  phase,           \* "idle": runtimeRef.current = null; else runtime.phase
  playerX,         \* runtime.player.x
  playerVx,        \* runtime.player.vx
  keys,            \* runtime.keys: the set of actions whose entry is true
  obstacles,       \* runtime.obstacles
  score,           \* runtime.score
  level,           \* runtime.level
  lives,           \* runtime.lives
  lastSpawn,       \* runtime.lastSpawn
  spawnInterval,   \* runtime.spawnInterval
  lastTime,        \* runtime.lastTime
  lastUiUpdate,    \* runtime.lastUiUpdate
  invulnerableFor, \* runtime.invulnerableFor
  best,            \* bestScoreRef.current
  ui,              \* the React state ui
  loopRef,         \* loopRef.current, 0 for null
  pending,         \* handles of the frame callbacks the browser will call
  firstFrame,      \* no frame callback has run since startGame
  surfaceOk,       \* the last call of startGame found the canvas and its context
  ends,            \* calls of endGame since the last startGame
  cmd              \* the operation that ran last

runVars == <<phase, playerX, playerVx, keys, obstacles, score, level, lives,
             lastSpawn, spawnInterval, lastTime, lastUiUpdate,
             invulnerableFor>>
\* everything but the record of the last operation
state == <<mounted, phase, playerX, playerVx, keys, obstacles, score, level,
           lives, lastSpawn, spawnInterval, lastTime, lastUiUpdate,
           invulnerableFor, best, ui, loopRef, pending, firstFrame,
           surfaceOk, ends>>
vars == <<state, cmd>>

\* ---- arithmetic ----------------------------------------------------------
Max(a, b) == IF a >= b THEN a ELSE b
Min(a, b) == IF a <= b THEN a ELSE b
Abs(a) == IF a >= 0 THEN a ELSE -a
\* a * n / d, truncated toward zero
MulDiv(a, n, d) == IF a * n >= 0 THEN (a * n) \div d ELSE -((-(a * n)) \div d)
\* Math.floor of a score, in points
FloorPoints(s) == s \div 1000

clampNoUpper(value, min, max) == Max(min, value)
clamp(value, min, max) == Max(min, Min(max, value))

KEY_MAP(key) ==
  CASE key \in {"ArrowLeft", "a", "A"} -> "left"
    [] key \in {"ArrowRight", "d", "D"} -> "right"
    [] OTHER -> "none"

\* ---- the player ----------------------------------------------------------
PLAYER_Y == HEIGHT - 1200
PLAYER_WIDTH == 480
PLAYER_HEIGHT == 560
PLAYER_SPEED == 4200
PLAYER_START_X == (WIDTH \div 2) - 240
LEFT_BOUND == 320
RightBound == WIDTH - 320 - PLAYER_WIDTH

\* player.vx after the input step of a frame
NextVx(vx, ks, delta) ==
  LET movingLeft == "left" \in ks
      movingRight == "right" \in ks
      accel == MulDiv(PLAYER_SPEED * delta, 5, 2000)
      decayed == MulDiv(vx, 85, 100)
  IN IF movingLeft /\ ~movingRight
       THEN clamp(vx - accel, -PLAYER_SPEED, PLAYER_SPEED)
     ELSE IF movingRight /\ ~movingLeft
       THEN clamp(vx + accel, -PLAYER_SPEED, PLAYER_SPEED)
     ELSE IF Abs(decayed) < 20 THEN 0 ELSE decayed

\* player.x after the move of a frame
NextX(x, vx, delta) == clamp(x + MulDiv(vx, delta, 1000), LEFT_BOUND, RightBound)

\* ---- obstacles -----------------------------------------------------------
TargetIntervalMin(lv) == Min(350, 1150 - lv * 80)
TargetInterval(lv) == Max(350, 1150 - lv * 80)

NewObstacle(lv, draw) ==
  [ x |-> 480 + MulDiv(WIDTH - 960, draw.rx, 4),
    y |-> -300,
    radius |-> 180 + MulDiv(180, draw.rr, 4),
    velocity |-> 1800 + lv * 400 + MulDiv(lv * 200, draw.rv, 4),
    drift |-> MulDiv(600 + lv * 100, draw.rd - 2, 4) ]

Moved(obs, delta) ==
  [obs EXCEPT !.y = obs.y + MulDiv(obs.velocity, delta, 1000),
              !.x = obs.x + MulDiv(obs.drift, delta, 1000)]

KeptAlways(obs) == TRUE
KeptAboveField(obs) == obs.y - obs.radius <= HEIGHT
Kept(obs) == obs.y - obs.radius <= HEIGHT + 600

\* runtime.obstacles.filter(...): every obstacle moves, those that left go
RECURSIVE UpdateHazards(_, _)
UpdateHazards(obsSeq, delta) ==
  IF obsSeq = <<>> THEN <<>>
  ELSE LET m == Moved(Head(obsSeq), delta)
           rest == UpdateHazards(Tail(obsSeq), delta)
       IN IF Kept(m) THEN <<m>> \o rest ELSE rest

\* the circle of obs meets the rectangle of the player at x
Hits(obs, x) ==
  LET closestX == clamp(obs.x, x, x + PLAYER_WIDTH)
      closestY == clamp(obs.y, PLAYER_Y, PLAYER_Y + PLAYER_HEIGHT)
      dx == obs.x - closestX
      dy == obs.y - closestY
  IN /\ Abs(dx) <= obs.radius
     /\ Abs(dy) <= obs.radius
     /\ dx * dx + dy * dy <= obs.radius * obs.radius

\* the hit that ends the run
FatalBelowZero(l) == l < 0
Fatal(l) == l <= 0

\* the for loop of the collision detection; st = [lives, inv, ended] holds
\* runtime.lives, runtime.invulnerableFor and the number of endGame calls
RECURSIVE CollisionLoop(_, _, _)
CollisionLoop(obsSeq, x, st) ==
  IF obsSeq = <<>> THEN st
  ELSE IF Hits(Head(obsSeq), x)
    THEN LET hit == [st EXCEPT !.lives = st.lives - 1, !.inv = 1250]
         IN IF Fatal(hit.lives)
              THEN [hit EXCEPT !.ended = hit.ended + 1]
              ELSE CollisionLoop(Tail(obsSeq), x, hit)
    ELSE CollisionLoop(Tail(obsSeq), x, st)

\* the collision detection skips the loop while the player is invulnerable
AlwaysVulnerable(inv) == TRUE
Vulnerable(inv) == ~(inv > 0)

\* ---- score and level -----------------------------------------------------
FlatScoreRate(lv) == 12
ScoreRate(lv) == 12 + lv * 4
LevelOf(s) == Min(12, 1 + (s \div 40000))

\* the frame goes on to the score only while the run is still running
AnyPhaseContinues(p) == TRUE
FrameContinues(p) == p = "running"

\* ---- the frame loop handle -----------------------------------------------
\* requestAnimationFrame: a handle no pending callback has
NewHandle(pend) ==
  CHOOSE n \in 1..(Cardinality(pend) + 1) :
    n \notin pend /\ \A m \in 1..(n - 1) : m \in pend

\* stopLoop: [ref, pend] afterwards
stopLoopKeepsRef(ref, pend) == [ref |-> ref, pend |-> pend \ {ref}]
stopLoop(ref, pend) ==
  IF ref # 0 THEN [ref |-> 0, pend |-> pend \ {ref}]
             ELSE [ref |-> ref, pend |-> pend]

\* endGame: the best score afterwards
LastScore(b, s) == FloorPoints(s)
NewBest(b, s) == Max(b, FloorPoints(s))

\* the phase endGame leaves
IdleEnd == "idle"
EndPhase == "gameover"

\* ---- state after construction --------------------------------------------
\* runtimeRef.current is null: the fields of the runtime hold the values
\* startGame will give them, and nothing reads them while the phase is "idle"
Init ==
  /\ mounted = TRUE
  /\ phase = "idle"
  /\ playerX = PLAYER_START_X
  /\ playerVx = 0
  /\ keys = {}
  /\ obstacles = <<>>
  /\ score = 0
  /\ level = 1
  /\ lives = INITIAL_LIVES
  /\ lastSpawn = 0
  /\ spawnInterval = 1000
  /\ lastTime = 0
  /\ lastUiUpdate = 0
  /\ invulnerableFor = 0
  /\ best = 0
  /\ ui = [phase |-> "idle", score |-> 0, best |-> 0, level |-> 1,
           lives |-> INITIAL_LIVES]
  /\ loopRef = 0
  /\ pending = {}
  /\ firstFrame = FALSE
  /\ surfaceOk = TRUE
  /\ ends = 0
  /\ cmd = "init"

\* ---- startGame -----------------------------------------------------------
\* the early returns of startGame: no canvas, or no 2D context
NeverAborts(surface) == FALSE
Aborts(surface) == ~surface

\* the runtime the previous run left, with the scalars reset
StaleRuntime ==
  [phase |-> "running", playerX |-> PLAYER_START_X, playerVx |-> 0,
   keys |-> keys, obstacles |-> obstacles, score |-> 0, level |-> 1,
   lives |-> INITIAL_LIVES, lastSpawn |-> lastSpawn, spawnInterval |-> 1000,
   lastTime |-> StartNow, lastUiUpdate |-> 0,
   invulnerableFor |-> invulnerableFor]
\* the player and the runtime startGame constructs
NewRuntime ==
  [phase |-> "running", playerX |-> PLAYER_START_X, playerVx |-> 0,
   keys |-> {}, obstacles |-> <<>>, score |-> 0, level |-> 1,
   lives |-> INITIAL_LIVES, lastSpawn |-> 0, spawnInterval |-> 1000,
   lastTime |-> StartNow, lastUiUpdate |-> 0, invulnerableFor |-> 0]

\* surface: the canvas and its 2D context are there
startGame(surface) ==
  IF Aborts(surface)
    THEN /\ surfaceOk' = surface
         /\ UNCHANGED <<mounted, phase, playerX, playerVx, keys, obstacles,
                        score, level, lives, lastSpawn, spawnInterval,
                        lastTime, lastUiUpdate, invulnerableFor, best, ui,
                        loopRef, pending, firstFrame, ends>>
    ELSE LET stopped == stopLoop(loopRef, pending)
             handle == NewHandle(stopped.pend)
             runtime == NewRuntime
         IN /\ surfaceOk' = surface
            /\ phase' = runtime.phase
            /\ playerX' = runtime.playerX
            /\ playerVx' = runtime.playerVx
            /\ keys' = runtime.keys
            /\ obstacles' = runtime.obstacles
            /\ score' = runtime.score
            /\ level' = runtime.level
            /\ lives' = runtime.lives
            /\ lastSpawn' = runtime.lastSpawn
            /\ spawnInterval' = runtime.spawnInterval
            /\ lastTime' = runtime.lastTime
            /\ lastUiUpdate' = runtime.lastUiUpdate
            /\ invulnerableFor' = runtime.invulnerableFor
            /\ ui' = [phase |-> "running", score |-> 0, best |-> best,
                      level |-> 1, lives |-> INITIAL_LIVES]
            /\ loopRef' = handle
            /\ pending' = stopped.pend \cup {handle}
            /\ firstFrame' = TRUE
            /\ ends' = 0
            /\ UNCHANGED <<mounted, best>>

\* the Begin Run / Retry button, rendered while ui.phase is not "running"
ClickStart ==
  /\ mounted
  /\ ui.phase # "running"
  /\ cmd' = "click"
  /\ \E surface \in BOOLEAN : startGame(surface)

\* ---- the event listeners -------------------------------------------------
SpaceAlwaysStarts(p) == TRUE
SpaceStarts(p) == p # "running"

handleKeyDown(key) ==
  /\ mounted
  /\ cmd' = IF key \in {" ", "Spacebar"} THEN "space" ELSE "keydown"
  /\ LET action == KEY_MAP(key)
     IN IF key \in {" ", "Spacebar"} /\ SpaceStarts(phase)
          THEN \E surface \in BOOLEAN : startGame(surface)
          ELSE /\ keys' = IF action # "none" /\ phase # "idle"
                            THEN keys \cup {action} ELSE keys
               /\ UNCHANGED <<mounted, phase, playerX, playerVx, obstacles,
                              score, level, lives, lastSpawn, spawnInterval,
                              lastTime, lastUiUpdate, invulnerableFor, best,
                              ui, loopRef, pending, firstFrame, surfaceOk,
                              ends>>

handleKeyUp(key) ==
  /\ mounted
  /\ cmd' = "keyup"
  /\ LET action == KEY_MAP(key)
     IN keys' = IF action # "none" /\ phase # "idle"
                  THEN keys \ {action} ELSE keys
  /\ UNCHANGED <<mounted, phase, playerX, playerVx, obstacles, score, level,
                 lives, lastSpawn, spawnInterval, lastTime, lastUiUpdate,
                 invulnerableFor, best, ui, loopRef, pending, firstFrame,
                 surfaceOk, ends>>

\* the pointer moves the player only during a run
PointerAlwaysMoves(p) == TRUE
PointerMoves(p) == p = "running"

\* normalized: the pointer's x in field coordinates
handlePointerMove(normalized) ==
  /\ mounted
  /\ cmd' = "pointer"
  /\ playerX' = IF ~PointerMoves(phase) THEN playerX
                ELSE clamp(normalized - (PLAYER_WIDTH \div 2), LEFT_BOUND,
                           RightBound)
  /\ UNCHANGED <<mounted, phase, playerVx, keys, obstacles, score, level,
                 lives, lastSpawn, spawnInterval, lastTime, lastUiUpdate,
                 invulnerableFor, best, ui, loopRef, pending, firstFrame,
                 surfaceOk, ends>>

\* the cleanup of the effect: the listeners go, the loop stops
Unmount ==
  /\ mounted
  /\ mounted' = FALSE
  /\ cmd' = "unmount"
  /\ LET stopped == stopLoop(loopRef, pending)
     IN loopRef' = stopped.ref /\ pending' = stopped.pend
  /\ UNCHANGED <<phase, playerX, playerVx, keys, obstacles, score, level,
                 lives, lastSpawn, spawnInterval, lastTime, lastUiUpdate,
                 invulnerableFor, best, ui, firstFrame, surfaceOk, ends>>

\* ---- the frame callback --------------------------------------------------
\* endGame: the ui it sets
EndUi(s, lv, newBest) ==
  [phase |-> EndPhase, score |-> FloorPoints(s), best |-> newBest,
   level |-> lv, lives |-> 0]

\* loop(timestamp), called by the browser for the pending handle h;
\* timestamp = runtime.lastTime + d; draw: what Math.random() returns if an
\* obstacle is spawned
loop(h, d, draw) ==
  /\ h \in pending
  /\ cmd' = "frame"
  /\ IF phase # "running"
       THEN /\ pending' = pending \ {h}
            /\ UNCHANGED <<mounted, phase, playerX, playerVx, keys, obstacles,
                           score, level, lives, lastSpawn, spawnInterval,
                           lastTime, lastUiUpdate, invulnerableFor, best, ui,
                           loopRef, firstFrame, surfaceOk, ends>>
       ELSE
         LET timestamp == lastTime + d
             delta == timestamp - lastTime
             \* update inputs
             vx == NextVx(playerVx, keys, delta)
             x == NextX(playerX, vx, delta)
             \* spawn new hazards
             timer == lastSpawn + delta
             targetInterval == TargetInterval(level)
             spawns == timer >= targetInterval
             pushed == IF spawns
                         THEN Append(obstacles, NewObstacle(level, draw))
                         ELSE obstacles
             \* update hazards
             moved == UpdateHazards(pushed, delta)
             \* collision detection
             hitState ==
               IF Vulnerable(invulnerableFor)
                 THEN CollisionLoop(moved, x, [lives |-> lives,
                                               inv |-> invulnerableFor,
                                               ended |-> ends])
                 ELSE [lives |-> lives,
                       inv |-> Max(0, invulnerableFor - delta),
                       ended |-> ends]
             over == hitState.ended > ends
             phaseNow == IF over THEN EndPhase ELSE phase
             \* endGame
             newBest == IF over THEN NewBest(best, score) ELSE best
             \* update score & difficulty
             newScore == score + delta * ScoreRate(level)
             newLevel == LevelOf(newScore)
             fired == pending \ {h}
             handle == NewHandle(fired)
             \* endGame's stopLoop, on the handle of the callback that runs
             stopped == stopLoop(loopRef, fired)
         IN /\ lastTime' = timestamp
            /\ playerVx' = vx
            /\ playerX' = x
            /\ lastSpawn' = IF spawns THEN 0 ELSE timer
            /\ spawnInterval' = targetInterval
            /\ obstacles' = moved
            /\ lives' = hitState.lives
            /\ invulnerableFor' = hitState.inv
            /\ ends' = hitState.ended
            /\ phase' = phaseNow
            /\ best' = newBest
            /\ firstFrame' = FALSE
            /\ IF FrameContinues(phaseNow)
                 THEN /\ score' = newScore
                      /\ level' = newLevel
                      /\ IF timestamp - lastUiUpdate >= 120
                           THEN /\ lastUiUpdate' = timestamp
                                /\ ui' = [phase |-> "running",
                                          score |-> FloorPoints(newScore),
                                          best |-> Max(best, FloorPoints(newScore)),
                                          level |-> newLevel,
                                          lives |-> hitState.lives]
                           ELSE UNCHANGED <<lastUiUpdate, ui>>
                      /\ loopRef' = handle
                      /\ pending' = fired \cup {handle}
                 ELSE /\ UNCHANGED <<score, level, lastUiUpdate>>
                      /\ ui' = EndUi(score, level, newBest)
                      /\ loopRef' = stopped.ref
                      /\ pending' = stopped.pend
            /\ UNCHANGED <<mounted, keys, surfaceOk>>

\* the timestamps the browser can deliver: they never go back from one frame
\* to the next, but the first one of a run may lie before the time startGame
\* read, or be equal to it
FrameDeltas(deltas) == IF firstFrame THEN deltas \cup {0, -Skew} ELSE deltas

Frame(deltas, draws, maxRun) ==
  \E h \in pending : \E d \in FrameDeltas(deltas) : \E draw \in draws :
    /\ lastTime + d - StartNow <= maxRun
    /\ loop(h, d, draw)

KeyDown(keySet) == \E key \in keySet : handleKeyDown(key)
KeyUp(keySet) == \E key \in keySet : handleKeyUp(key)
PointerMove(xs) == \E normalized \in xs : handlePointerMove(normalized)

\* ---- the game: frames, start commands, pointer, teardown -----------------
Next ==
  \/ Frame(Deltas, Draws, MaxRun)
  \/ KeyDown(Keys)
  \/ KeyUp(Keys)
  \/ PointerMove(PointerXs)
  \/ ClickStart
  \/ Unmount

Spec == Init /\ [][Next]_vars

\* ---- culling: short frames, so that a hazard crosses the margin slowly ----
NextCull ==
  \/ Frame(CullDeltas, Draws, MaxCullRun)
  \/ ClickStart

SpecCull == Init /\ [][NextCull]_vars

\* ---- steering: short runs with the steering keys -------------------------
NextSteer ==
  \/ Frame(Deltas, Draws, MaxSteerRun)
  \/ KeyDown(SteerKeys)
  \/ KeyUp(SteerKeys)
  \/ PointerMove(SteerPointerXs)
  \/ ClickStart

SpecSteer == Init /\ [][NextSteer]_vars

\* ---- the scoring scenario: one run, no collision, frames only ------------
ScenarioStart == phase = "idle" /\ cmd' = "click" /\ startGame(TRUE)

ScenarioFrame ==
  \E h \in pending : \E d \in ScenarioDeltas : \E draw \in ScenarioDraws :
    /\ lastTime + d - StartNow <= ScenarioTime
    /\ loop(h, d, draw)

NextScenario ==
  \/ ScenarioStart
  \/ ScenarioFrame

SpecScenario == Init /\ [][NextScenario]_vars

\* ---- sanity of the model --------------------------------------------------
\* the overlay with the start button is rendered from ui.phase, which every
\* operation keeps equal to the phase of the runtime
UiPhaseTracksPhase ==
  /\ phase \in {"idle", "running", "gameover"}
  /\ ui.phase = phase
  /\ keys \subseteq {"left", "right"}

StartCommands == {"space", "click"}
FrameRan == cmd' = "frame" /\ phase = "running"
Overlapping == \E i \in 1..Len(obstacles) : Hits(obstacles[i], playerX)

\* ---- C1 -------------------------------------------------------------------
\* C1: at most one collision is resolved per frame: a frame executed while
\* Running leaves lives at least at its value before the frame minus 1,
\* whatever number of hazards overlap the player.
C1_AtMostOneCollisionPerFrame ==
  [][FrameRan => lives' >= lives - 1]_vars

\* ---- C2 -------------------------------------------------------------------
\* C2: a start command issued while the phase is Running (the Space key, or
\* the Begin Run / Retry button) changes nothing: score, level, lives,
\* hazards, player, timers, best score, ui and the pending frame callback
\* all stay as they are.
C2_StartWhileRunningIsNoOp ==
  [][(phase = "running" /\ cmd' \in StartCommands) => UNCHANGED state]_vars

\* Space was pressed in a run that had already advanced, and the run goes on
C2_Witness ==
  /\ cmd = "space"
  /\ phase = "running"
  /\ ~firstFrame
  /\ score > 0
  /\ obstacles # <<>>

\* ---- C3 -------------------------------------------------------------------
\* C3: the only phase changes are Idle -> Running by a start command,
\* Running -> GameOver by a frame whose collision resolution brings lives to
\* zero, and GameOver -> Running by a start command.
C3_PhaseTransitions ==
  [][\/ phase' = phase
     \/ /\ phase = "idle"
        /\ phase' = "running"
        /\ cmd' \in StartCommands
     \/ /\ phase = "running"
        /\ phase' = "gameover"
        /\ cmd' = "frame"
        /\ lives > 0
        /\ lives' = 0
     \/ /\ phase = "gameover"
        /\ phase' = "running"
        /\ cmd' \in StartCommands]_vars

\* a second run is running: all three transitions have been taken
C3_Witness ==
  /\ phase = "running"
  /\ best > 0
  /\ ~firstFrame

\* ---- C4 -------------------------------------------------------------------
\* C4: the frame whose collision brings lives to 0 sets the phase to GameOver
\* and adds nothing to score and level; endGame runs exactly once in a run
\* that is over and not at all before; while the phase stays GameOver no
\* frame and no input event changes score or level.
C4_GameOverOnceAndFrozen ==
  [][/\ (lives > 0 /\ lives' <= 0) =>
          /\ phase = "running"
          /\ phase' = "gameover"
          /\ score' = score
          /\ level' = level
     /\ (phase = "gameover" /\ phase' = "gameover") =>
          /\ score' = score
          /\ level' = level
          /\ lives' = 0
     /\ ends' = (IF phase' = "gameover" THEN 1 ELSE 0)]_vars

\* the run is over and an input event has arrived since
C4_Witness ==
  /\ phase = "gameover"
  /\ lives = 0
  /\ score > 0
  /\ cmd = "pointer"

\* ---- C5 -------------------------------------------------------------------
\* C5: a frame that begins with the invulnerability timer above zero does not
\* change lives, whatever hazards overlap the player, and leaves the timer
\* between zero and its value before the frame.
C5_InvulnerableFrameKeepsLives ==
  [][(FrameRan /\ invulnerableFor > 0) =>
        /\ lives' = lives
        /\ invulnerableFor' >= 0
        /\ invulnerableFor' <= invulnerableFor]_vars

\* a frame has just counted the timer down while a hazard overlaps the player
C5_Witness ==
  /\ cmd = "frame"
  /\ phase = "running"
  /\ invulnerableFor > 0
  /\ invulnerableFor < 1250
  /\ Overlapping

\* ---- C6 -------------------------------------------------------------------
\* C6: a frame whose timestamp is equal to or earlier than the stored last
\* time moves no hazard upward, does not decrease the spawn timer and does
\* not increase the invulnerability timer.
C6_NonPositiveDeltaIsHarmless ==
  [][(FrameRan /\ lastTime' <= lastTime) =>
        /\ \A i \in 1..Len(obstacles) :
             i <= Len(obstacles') => obstacles'[i].y >= obstacles[i].y
        /\ lastSpawn' >= lastSpawn
        /\ invulnerableFor' <= invulnerableFor]_vars

\* ---- C7 -------------------------------------------------------------------
\* C7: while Running the score is never negative and no frame decreases it,
\* whatever timestamps the frames get.
C7_ScoreNonNegativeMonotone ==
  [][/\ phase' = "running" => score' >= 0
     /\ FrameRan => score' >= score]_vars

\* ---- C8 -------------------------------------------------------------------
\* C8: between frames level = min(12, 1 + floor(score / 40)), level lies in
\* 1..12, and no frame of a run decreases it.
C8_LevelFromScore ==
  [][/\ level' = Min(12, 1 + (score' \div 40000))
     /\ level' \in 1..12
     /\ FrameRan => level' >= level]_vars

\* ---- C9 -------------------------------------------------------------------
ScenarioDone ==
  /\ phase = "running"
  /\ lives = INITIAL_LIVES
  /\ lastTime - StartNow = 10000

C10_PlayerInBounds ==
  phase # "idle" => (playerX >= 320 /\ playerX <= 6400)

\* a frame with the right key held has pushed the player against the bound
C10_Witness ==
  /\ cmd = "frame"
  /\ "right" \in keys
  /\ playerVx = PLAYER_SPEED
  /\ playerX = 6400

InputCommands == {"keydown", "keyup", "pointer"}
Physics == <<playerX, playerVx, obstacles>>
AllButKeys == <<mounted, phase, playerX, playerVx, obstacles, score, level,
                lives, lastSpawn, spawnInterval, lastTime, lastUiUpdate,
                invulnerableFor, best, ui, loopRef, pending, firstFrame,
                surfaceOk, ends>>

C12_OneFramePending ==
  /\ Cardinality(pending) <= 1
  /\ (phase = "running" /\ mounted) => (loopRef # 0 /\ pending = {loopRef})
  /\ phase = "gameover" => (pending = {} /\ loopRef = 0)
  /\ phase = "idle" => pending = {}

\* a frame of a run in progress has just scheduled its successor
C12_Witness ==
  /\ cmd = "frame"
  /\ phase = "running"
  /\ ~firstFrame
  /\ score > 0
  /\ pending = {loopRef}
  /\ loopRef # 0

RunEnds == phase = "running" /\ phase' = "gameover"

\* C13: the best score changes only in a step that takes the phase from
\* running to game over, it never decreases, after such a step it is the
\* larger of the previous best and the floor of the score of the run that
\* ended, and a start command leaves it as it was.
C13_BestScore ==
  [][ /\ best' # best => RunEnds
      /\ best' >= best
      /\ RunEnds => (best' = Max(best, score \div 1000) /\ score' = score)
      /\ cmd' \in StartCommands => best' = best ]_vars

\* a later run has ended below the best score, which is kept
C13_Witness ==
  /\ cmd = "frame"
  /\ phase = "gameover"
  /\ best > 0
  /\ score \div 1000 < best

\* a start command that startGame accepted: issued outside a run, with the
\* canvas and its context there
StartAccepted == cmd' \in StartCommands /\ phase # "running" /\ surfaceOk'

\* C14: a start command accepted in the idle or the game-over phase leaves
\* phase = running, score = 0, level = 1, lives = 3, no hazard, invulnerability
\* timer 0, spawn timer 0 and player velocity 0, whatever the state before.
C14_StartResetsRun ==
  [][StartAccepted =>
       /\ phase' = "running"
       /\ score' = 0
       /\ level' = 1
       /\ lives' = 3
       /\ obstacles' = <<>>
       /\ invulnerableFor' = 0
       /\ lastSpawn' = 0
       /\ playerVx' = 0 ]_vars

\* a run has just been started over the remains of a lost one
C14_Witness ==
  /\ cmd \in StartCommands
  /\ phase = "running"
  /\ firstFrame
  /\ best > 0
  /\ obstacles = <<>>
  /\ lives = 3

\* the hazard obs of this state, as the frame of this step moves it
MovedNow(obs) == Moved(obs, lastTime' - lastTime)
Present(obs, obsSeq) == \E j \in 1..Len(obsSeq) : obsSeq[j] = obs

C16_HazardsLeaveByCullOrReset ==
  [][ /\ FrameRan =>
           \A i \in 1..Len(obstacles) :
             LET m == MovedNow(obstacles[i])
             IN m.y - m.radius <= 5400 => Present(m, obstacles')
      /\ (~FrameRan /\ obstacles' # obstacles) =>
           (StartAccepted /\ obstacles' = <<>>) ]_vars

\* a frame has just taken a life, and the hazard that did it is still in the
\* collection, on the player
C16_Witness ==
  /\ cmd = "frame"
  /\ phase = "running"
  /\ lives < 3
  /\ invulnerableFor = 1250
  /\ Overlapping

\* the hazards of this state that the frame of this step moves and keeps
Survivors ==
  Cardinality({i \in 1..Len(obstacles) :
                 LET m == MovedNow(obstacles[i])
                 IN m.y - m.radius <= 5400})

\* C17: in a frame of a run, when the spawn timer plus delta reaches
\* max(0.35, 1.15 - 0.08 * level) s the frame appends exactly one hazard and
\* resets the timer to 0; otherwise it appends none and the timer keeps the
\* sum; so no frame appends two hazards, however long its delta.
C17_AtMostOneSpawnPerFrame ==
  [][FrameRan =>
       LET timer == lastSpawn + (lastTime' - lastTime)
       IN IF timer >= Max(350, 1150 - 80 * level)
            THEN lastSpawn' = 0 /\ Len(obstacles') = Survivors + 1
            ELSE lastSpawn' = timer /\ Len(obstacles') = Survivors ]_vars

\* a frame longer than the spawn interval has appended one hazard, already
\* far down the field, to the one in flight
C17_Witness ==
  /\ cmd = "frame"
  /\ ~firstFrame
  /\ lastSpawn = 0
  /\ level >= 2
  /\ Len(obstacles) = 2
  /\ obstacles[2].y > 2000

\* a start command that reached startGame and found no drawing surface
StartAborted == cmd' \in StartCommands /\ phase # "running" /\ ~surfaceOk'

\* C18: a start command issued while the canvas or its 2D context is missing
\* changes nothing: phase, run state, best score, displayed state, loop
\* handle and pending frame callback are as before.
C18_AbortedStartChangesNothing ==
  [][StartAborted =>
       UNCHANGED <<mounted, phase, playerX, playerVx, keys, obstacles, score,
                   level, lives, lastSpawn, spawnInterval, lastTime,
                   lastUiUpdate, invulnerableFor, best, ui, loopRef, pending,
                   firstFrame, ends>>]_vars

\* a retry after a lost run found no surface: the lost run's state is still
\* there
C18_Witness ==
  /\ cmd \in StartCommands
  /\ ~surfaceOk
  /\ phase = "gameover"
  /\ lives = 0
  /\ score > 0
  /\ obstacles # <<>>

\* stopLoop() called in this state, and called again
StoppedOnce == stopLoop(loopRef, pending)
StoppedTwice == stopLoop(StoppedOnce.ref, StoppedOnce.pend)

\* C19: in every reachable state a second stopLoop changes nothing after the
\* first, and when no frame is pending (the handle is null) the first changes
\* nothing either; after stopLoop the handle is null and no frame is pending;
\* the cleanup, which is a stopLoop, keeps the phase and all of the run state,
\* and when nothing was pending it changes only the mounted flag.
C19_StopLoopIdempotent ==
  /\ [](/\ StoppedTwice = StoppedOnce
        /\ StoppedOnce.ref = 0 /\ StoppedOnce.pend = {}
        /\ (pending = {}) <=> (loopRef = 0)
        /\ pending = {} => StoppedOnce = [ref |-> loopRef, pend |-> pending])
  /\ [][cmd' = "unmount" =>
          /\ loopRef' = StoppedOnce.ref
          /\ pending' = StoppedOnce.pend
          /\ loopRef' = 0
          /\ phase' = phase
          /\ UNCHANGED <<runVars, best, ui, firstFrame, surfaceOk, ends>>
          /\ pending = {} => UNCHANGED <<loopRef, pending>> ]_vars

\* the cleanup has stopped the loop that endGame had already stopped
C19_Witness ==
  /\ cmd = "unmount"
  /\ ~mounted
  /\ phase = "gameover"
  /\ loopRef = 0
  /\ pending = {}
  /\ score > 0

\* the hazards of the collection that meet the player
OverlappingHazards ==
  {i \in 1..Len(obstacles) : Hits(obstacles[i], playerX)}

\* C20: from the first start on, lives is an integer from 0 to 3, and it is
\* 0 exactly when the phase is game over.
C20_LivesRange ==
  phase # "idle" =>
    /\ lives \in 0..3
    /\ (lives = 0) <=> (phase = "gameover")

\* the frame that ended the run had two hazards on the player, and lives
\* stopped at 0
C20_Witness ==
  /\ cmd = "frame"
  /\ phase = "gameover"
  /\ lives = 0
  /\ Cardinality(OverlappingHazards) >= 2
==============================================================================
